---- MODULE Spec2Model ----
(***************************************************************************)
(* A model of main.py, the PWA asset generator: one invocation of main()   *)
(* parses its arguments, resolves the source image, and runs the asset     *)
(* pipeline of generate_assets step by step.  Every step that touches the  *)
(* file system or the image library may fail; the exception then travels   *)
(* through the finally block of generate_assets to the handlers of main.   *)
(*                                                                         *)
(* Command-line strings that the program inspects character by character   *)
(* (the project folder, the centring flag) are sequences of one-character  *)
(* strings; file names the program only passes on are TLA+ strings.        *)
(***************************************************************************)
EXTENDS Integers, Sequences, FiniteSets, TLC

VARIABLES
    args,          \* the arguments after the program name
    srcFile,       \* what the file "logo.png" of the current directory holds
    pc,            \* the position of the invocation in main / generate_assets
    center,        \* main's local `center`
    original,      \* generate_assets' local `original`
    base,          \* generate_assets' local `base`
    sizeIdx,       \* generate_manifest_icons: index of `size` in MANIFEST_SIZES
    prefixIdx,     \* generate_manifest_icons: index of `prefix` in MANIFEST_PREFIXES
    scratch,       \* the NamedTemporaryFile of the centring branch
    outKind,       \* what the path Path(project_folder) is on disk
    manifestDir,   \* whether <out>/manifest exists
    files,         \* the files below <out>: relative path -> content
    exc,           \* the exception in flight ("none" when there is none)
    exitCode,      \* the exit status of the process (-1 while it runs)
    stdout,        \* what the invocation printed on standard output
    stderr,        \* what the interpreter printed on standard error
    run,           \* number of the invocation (the user may run the tool again)
    pre,           \* the output tree as it was when the invocation started
    written,       \* the files this invocation wrote completely, in order
    failed,        \* the step at which this invocation failed ("none" if none)
    tmpCreated,    \* whether this invocation ever created a scratch file
    composed,      \* number of centre_on_canvas calls of this invocation
    cfg            \* the canvas configuration handed to centre_on_canvas

vars == <<args, srcFile, pc, center, original, base, sizeIdx, prefixIdx, scratch,
          outKind, manifestDir, files, exc, exitCode, stdout, stderr, run, pre,
          written, failed, tmpCreated, composed, cfg>>

(***************************************************************************)
(* Module-level configuration of main.py.                                  *)
(***************************************************************************)
MANIFEST_SIZES == <<32, 48, 72, 128, 180, 192, 256, 384, 512>>

MANIFEST_PREFIXES == <<"icon", "maskable-icon">>

CANVAS_SIZE == <<500, 500>>

INNER_SIZE == <<320, 320>>

MANIFEST_ICON_BASE_PATH == "/assets/media/img/manifest"

LogoSize == 192

ICO_SIZES == <<<<32, 32>>, <<48, 48>>, <<64, 64>>, <<128, 128>>, <<256, 256>>>>

FaviconThumb == <<32, 32>>

(***************************************************************************)
(* Bounds of the model.                                                    *)
(***************************************************************************)
MaxRuns == 2

MaxDim == 4

(***************************************************************************)
(* Strings as character sequences: str.strip(), str.lower(), Path(...).     *)
(***************************************************************************)
Whitespace == {" ", "\t", "\n", "\r"}

UpperChars == <<"A", "B", "C", "D", "E", "F", "G", "H", "I", "J", "K", "L", "M",
                "N", "O", "P", "Q", "R", "S", "T", "U", "V", "W", "X", "Y", "Z">>

LowerChars == <<"a", "b", "c", "d", "e", "f", "g", "h", "i", "j", "k", "l", "m",
                "n", "o", "p", "q", "r", "s", "t", "u", "v", "w", "x", "y", "z">>

LowerChar(c) ==
    IF \E i \in 1..Len(UpperChars) : UpperChars[i] = c
    THEN LowerChars[CHOOSE i \in 1..Len(UpperChars) : UpperChars[i] = c]
    ELSE c

Lower(s) == [i \in 1..Len(s) |-> LowerChar(s[i])]

RECURSIVE LStrip(_)
LStrip(s) ==
    IF s # <<>> /\ Head(s) \in Whitespace THEN LStrip(Tail(s)) ELSE s

RECURSIVE RStrip(_)
RStrip(s) ==
    IF s # <<>> /\ s[Len(s)] \in Whitespace
    THEN RStrip(SubSeq(s, 1, Len(s) - 1))
    ELSE s

Strip(s) == RStrip(LStrip(s))

\* s.split(sep): the components between occurrences of sep
RECURSIVE Split(_, _)
Split(s, sep) ==
    IF \A i \in 1..Len(s) : s[i] # sep
    THEN <<s>>
    ELSE LET k == CHOOSE i \in 1..Len(s) :
                      s[i] = sep /\ \A j \in 1..(i - 1) : s[j] # sep
         IN  <<SubSeq(s, 1, k - 1)>> \o Split(SubSeq(s, k + 1, Len(s)), sep)

RECURSIVE Join(_, _)
Join(parts, sep) ==
    IF parts = <<>> THEN <<>>
    ELSE IF Len(parts) = 1 THEN parts[1]
    ELSE parts[1] \o <<sep>> \o Join(Tail(parts), sep)

KeepComponent(c) == c # <<>> /\ c # <<".">>

\* str(Path(s)): empty and "." components dropped, a leading "/" kept
PathStr(s) ==
    LET parts == SelectSeq(Split(s, "/"), KeepComponent)
        abs   == s # <<>> /\ s[1] = "/"
    IN  IF abs THEN <<"/">> \o Join(parts, "/")
        ELSE IF parts = <<>> THEN <<".">>
        ELSE Join(parts, "/")

(***************************************************************************)
(* Images.  An image is its size, its pixel mode, where its pixels come    *)
(* from ("source": the user's file, "canvas": a composed canvas) and the   *)
(* rectangle <<left, top, right, bottom>> of it that holds source pixels.   *)
(***************************************************************************)
NoImage == [size |-> <<0, 0>>, mode |-> "none", origin |-> "none", box |-> <<0, 0, 0, 0>>]

Max(a, b) == IF a >= b THEN a ELSE b

Min(a, b) == IF a <= b THEN a ELSE b

\* Image.resize(size, RESAMPLE): a new image of exactly `size`, content scaled
Resize(img, size) ==
    [img EXCEPT !.size = size,
                !.box  = <<(img.box[1] * size[1]) \div img.size[1],
                           (img.box[2] * size[2]) \div img.size[2],
                           (img.box[3] * size[1]) \div img.size[1],
                           (img.box[4] * size[2]) \div img.size[2]>>]

\* Image.paste(src, offset, mask): src's pixels land at offset, clipped to the canvas
Paste(canvas, src, offset) ==
    [canvas EXCEPT !.box = <<Max(offset[1] + src.box[1], 0),
                             Max(offset[2] + src.box[2], 0),
                             Min(offset[1] + src.box[3], canvas.size[1]),
                             Min(offset[2] + src.box[4], canvas.size[2])>>]

\* a faulty variant of Offset: the whole margin is put before the image
OffsetNoHalving(canvas_size, inner_size) ==
    <<canvas_size[1] - inner_size[1], canvas_size[2] - inner_size[2]>>

Offset(canvas_size, inner_size) ==
    <<(canvas_size[1] - inner_size[1]) \div 2, (canvas_size[2] - inner_size[2]) \div 2>>

centre_on_canvas(img, canvas_size, inner_size) ==
    LET resized == Resize(img, inner_size)
        canvas  == [size |-> canvas_size, mode |-> "RGBA", origin |-> "canvas",
                    box |-> <<0, 0, 0, 0>>]
    IN  Paste(canvas, resized, Offset(canvas_size, inner_size))

(***************************************************************************)
(* File contents.                                                          *)
(***************************************************************************)
PNG(img) == [format |-> "PNG", image |-> img]

ICO(img, sizes) == [format |-> "ICO", image |-> img, sizes |-> sizes]

JSON(doc) == [format |-> "JSON", doc |-> doc]

\* what a write that failed half way leaves behind
Truncated == [format |-> "truncated"]

\* Image.open(path) + convert("RGBA") on a file holding `content`
open_and_convert_img_to_rgb(content) == [content.image EXCEPT !.mode = "RGBA"]

(***************************************************************************)
(* File names and the manifest document.                                   *)
(***************************************************************************)
\* a faulty variant of IconFileName: the edge length is written once
IconFileNameOneEdge(prefix, size) == prefix \o "-" \o ToString(size) \o ".png"

IconFileName(prefix, size) ==
    prefix \o "-" \o ToString(size) \o "x" \o ToString(size) \o ".png"

IconEntries(size) ==
    LET size_str == ToString(size) \o "x" \o ToString(size)
    IN  << [src     |-> MANIFEST_ICON_BASE_PATH \o "/icon-" \o size_str \o ".png",
            sizes   |-> size_str,
            type    |-> "image/png",
            purpose |-> "any"],
           [src     |-> MANIFEST_ICON_BASE_PATH \o "/maskable-icon-" \o size_str \o ".png",
            sizes   |-> size_str,
            type    |-> "image/png",
            purpose |-> "maskable"] >>

RECURSIVE BuildIcons(_)
BuildIcons(i) ==
    IF i > Len(MANIFEST_SIZES) THEN <<>>
    ELSE IconEntries(MANIFEST_SIZES[i]) \o BuildIcons(i + 1)

\* a faulty variant of generate_manifest_json: the short name is the normalised path
generate_manifest_json_normalised(project_folder) ==
    [name             |-> "Nom complet de l'application",
     short_name       |-> PathStr(project_folder),
     description      |-> "Description de l'application.",
     lang             |-> "fr-FR",
     dir              |-> "ltr",
     start_url        |-> "/",
     scope            |-> "/",
     display          |-> "standalone",
     orientation      |-> "portrait-primary",
     theme_color      |-> "#ffffff",
     background_color |-> "#ffffff",
     icons            |-> BuildIcons(1),
     categories       |-> <<>>]

generate_manifest_json(project_folder) ==
    [name             |-> "Nom complet de l'application",
     short_name       |-> project_folder,
     description      |-> "Description de l'application.",
     lang             |-> "fr-FR",
     dir              |-> "ltr",
     start_url        |-> "/",
     scope            |-> "/",
     display          |-> "standalone",
     orientation      |-> "portrait-primary",
     theme_color      |-> "#ffffff",
     background_color |-> "#ffffff",
     icons            |-> BuildIcons(1),
     categories       |-> <<>>]

(***************************************************************************)
(* _parse_bool(value, flag): whether it exits, and what it returns if not. *)
(***************************************************************************)
\* a faulty variant of parse_bool: the value is not lower-cased
parse_bool_case_sensitive(value, flag) ==
    LET normalised == Strip(value)
    IN  [exits   |-> normalised \notin {<<"t", "r", "u", "e">>, <<"f", "a", "l", "s", "e">>},
         result  |-> normalised = <<"t", "r", "u", "e">>,
         message |-> [kind |-> "flag", flag |-> flag, value |-> value]]

parse_bool(value, flag) ==
    LET normalised == Lower(Strip(value))
    IN  [exits   |-> normalised \notin {<<"t", "r", "u", "e">>, <<"f", "a", "l", "s", "e">>},
         result  |-> normalised = <<"t", "r", "u", "e">>,
         message |-> [kind |-> "flag", flag |-> flag, value |-> value]]

(***************************************************************************)
(* Exceptions.  The handlers of main catch FileNotFoundError and OSError    *)
(* (with its subclasses); anything else leaves main uncaught.              *)
(***************************************************************************)
OSErrorClasses == {"OSError", "FileNotFoundError", "FileExistsError",
                   "UnidentifiedImageError"}

(***************************************************************************)
(* The environment of an invocation.                                       *)
(***************************************************************************)
\* the current directory: what each file name the user may give names there
Cwd == [f \in {"logo.png", "missing.png", "pictures"} |->
            CASE f = "logo.png" -> "file"
              [] f = "missing.png" -> "absent"
              [] OTHER -> "dir"]

\* what logo.png may hold: a decodable image, bytes no decoder identifies, or an
\* image so large that Image.open refuses it with DecompressionBombError
SourceFiles ==
    { [decode |-> "ok",
       image  |-> [size |-> <<1000, 1000>>, mode |-> "RGB", origin |-> "source",
                   box |-> <<0, 0, 1000, 1000>>]],
      [decode |-> "ok",
       image  |-> [size |-> <<640, 480>>, mode |-> "RGBA", origin |-> "source",
                   box |-> <<0, 0, 640, 480>>]],
      [decode |-> "UnidentifiedImageError", image |-> NoImage],
      [decode |-> "DecompressionBombError", image |-> NoImage] }

ProjectFolders ==
    { <<"a", "p", "p">>,
      <<"a", "p", "p", "/">>,
      <<".", "/", "o", "u", "t", "/", "w", "e", "b">> }

CenterArgs ==
    { <<"t", "r", "u", "e">>,
      <<"T", "R", "U", "E">>,
      <<"F", "a", "l", "s", "e">>,
      <<"f", "a", "l", "s", "e">>,
      <<" ", "t", "r", "u", "e">>,
      <<"f", "a", "l", "s", "e", "\n">>,
      <<"t", " ", "r", "u", "e">>,
      <<"M", "a", "y", "b", "e">>,
      <<"t", "r", "u">>,
      <<"1">>,
      <<>> }

ArgLists ==
    { <<>>, <<"logo.png">>,
      <<"logo.png", <<"a", "p", "p">>, <<"t", "r", "u", "e">>, <<"x">>>> }
    \cup { <<f, p>> : f \in DOMAIN Cwd, p \in ProjectFolders }
    \cup { <<f, p, c>> : f \in DOMAIN Cwd, p \in ProjectFolders, c \in CenterArgs }

StaleFile == [format |-> "stale"]

\* the output tree an invocation may find: nothing, an empty directory, a
\* regular file in its place, or the remains of some earlier use
InitialOutputs ==
    { [outKind |-> "absent", manifestDir |-> FALSE, files |-> <<>>],
      [outKind |-> "dir",    manifestDir |-> FALSE, files |-> <<>>],
      [outKind |-> "file",   manifestDir |-> FALSE, files |-> <<>>],
      [outKind |-> "dir",    manifestDir |-> TRUE,
       files   |-> (<<"manifest.json">> :> StaleFile) @@ (<<"notes.txt">> :> StaleFile)] }

NoScratch == [exists |-> FALSE, data |-> [format |-> "none"]]

Put(f, path, content) ==
    [p \in (DOMAIN f) \cup {path} |-> IF p = path THEN content ELSE f[p]]

(***************************************************************************)
(* The state after the interpreter has started main().                     *)
(***************************************************************************)
Init ==
    /\ args \in ArgLists
    /\ srcFile \in SourceFiles
    /\ \E o \in InitialOutputs :
          /\ outKind = o.outKind
          /\ manifestDir = o.manifestDir
          /\ files = o.files
          /\ pre = o
    /\ pc = "main"
    /\ center = TRUE
    /\ original = NoImage
    /\ base = NoImage
    /\ sizeIdx = 1
    /\ prefixIdx = 1
    /\ scratch = NoScratch
    /\ exc = "none"
    /\ exitCode = -1
    /\ stdout = <<>>
    /\ stderr = <<>>
    /\ run = 1
    /\ written = <<>>
    /\ failed = "none"
    /\ tmpCreated = FALSE
    /\ composed = 0
    /\ cfg = [canvas |-> CANVAS_SIZE, inner |-> INNER_SIZE]

locals == <<center, original, base, sizeIdx, prefixIdx>>

disk == <<outKind, manifestDir, files, scratch>>

output == <<exitCode, stdout, stderr>>

env == <<args, srcFile, run, pre, cfg>>

\* the step `step` raises an exception of class `class`; control goes to `handler`
Raise(step, class, handler) ==
    /\ exc' = class
    /\ failed' = step
    /\ pc' = handler

\* print(...) followed by sys.exit(1)
PrintAndExit1(message) ==
    /\ stdout' = Append(stdout, message)
    /\ exitCode' = 1
    /\ pc' = "exited"
    /\ UNCHANGED stderr

(***************************************************************************)
(* main()                                                                  *)
(***************************************************************************)
CheckArgCount ==
    /\ pc = "main"
    /\ IF ~(2 <= Len(args) /\ Len(args) <= 3)
       THEN /\ PrintAndExit1([kind |-> "usage"])
            /\ failed' = "usage"
       ELSE /\ pc' = "parse"
            /\ UNCHANGED <<output, failed>>
    /\ UNCHANGED <<locals, disk, env, exc, written, tmpCreated, composed>>

ParseCenter ==
    /\ pc = "parse"
    /\ IF Len(args) = 3
       THEN LET r == parse_bool(args[3], "center")
            IN  IF r.exits
                THEN /\ PrintAndExit1(r.message)
                     /\ failed' = "flag"
                     /\ UNCHANGED center
                ELSE /\ center' = r.result
                     /\ pc' = "resolve"
                     /\ UNCHANGED <<output, failed>>
       ELSE /\ center' = TRUE
            /\ pc' = "resolve"
            /\ UNCHANGED <<output, failed>>
    /\ UNCHANGED <<original, base, sizeIdx, prefixIdx, disk, env, exc, written,
                   tmpCreated, composed>>

\* a faulty variant of ResolveSource: the check of the source file is left to the decoder
ResolveSourceUnchecked ==
    /\ pc = "resolve"
    /\ pc' = "mkdir_out"
    /\ UNCHANGED <<locals, disk, env, output, exc, failed, written, tmpCreated, composed>>

ResolveSource ==
    /\ pc = "resolve"
    /\ IF Cwd[args[1]] = "file"
       THEN /\ pc' = "mkdir_out"
            /\ UNCHANGED <<exc, failed>>
       ELSE Raise("resolve", "FileNotFoundError", "except")
    /\ UNCHANGED <<locals, disk, env, output, written, tmpCreated, composed>>

HandleError ==
    /\ pc = "except"
    /\ IF exc = "FileNotFoundError"
       THEN PrintAndExit1([kind |-> "File error"])
       ELSE IF exc \in OSErrorClasses
       THEN PrintAndExit1([kind |-> "I/O error"])
       ELSE /\ stderr' = Append(stderr, [kind |-> "traceback", class |-> exc])
            /\ exitCode' = 1
            /\ pc' = "exited"
            /\ UNCHANGED stdout
    /\ UNCHANGED <<locals, disk, env, exc, failed, written, tmpCreated, composed>>

(***************************************************************************)
(* generate_assets(): the output directory, the source, the base image     *)
(***************************************************************************)
\* a faulty variant of MkdirOut: the manifest subdirectory is made up front as well
MkdirOutWithManifest ==
    /\ pc = "mkdir_out"
    /\ \/ /\ outKind \in {"absent", "dir"}
          /\ outKind' = "dir"
          /\ manifestDir' = TRUE
          /\ pc' = "open_src"
          /\ UNCHANGED <<exc, failed>>
       \/ /\ outKind = "file"
          /\ Raise("mkdir_out", "FileExistsError", "except")
          /\ UNCHANGED <<outKind, manifestDir>>
       \/ /\ outKind = "absent"
          /\ Raise("mkdir_out", "OSError", "except")
          /\ UNCHANGED <<outKind, manifestDir>>
    /\ UNCHANGED <<locals, files, scratch, env, output, written, tmpCreated, composed>>

MkdirOut ==
    /\ pc = "mkdir_out"
    /\ \/ /\ outKind \in {"absent", "dir"}
          /\ outKind' = "dir"
          /\ pc' = "open_src"
          /\ UNCHANGED <<exc, failed>>
       \/ /\ outKind = "file"
          /\ Raise("mkdir_out", "FileExistsError", "except")
          /\ UNCHANGED outKind
       \/ /\ outKind = "absent"
          /\ Raise("mkdir_out", "OSError", "except")
          /\ UNCHANGED outKind
    /\ UNCHANGED <<locals, manifestDir, files, scratch, env, output, written,
                   tmpCreated, composed>>

\* what Image.open(path) and convert("RGBA") raise on the source, "ok" if nothing
DecodeOutcome(filename) ==
    IF Cwd[filename] # "file" THEN "FileNotFoundError" ELSE srcFile.decode

OpenSource ==
    /\ pc = "open_src"
    /\ IF DecodeOutcome(args[1]) = "ok"
       THEN /\ original' = open_and_convert_img_to_rgb(srcFile)
            /\ pc' = "branch"
            /\ UNCHANGED <<exc, failed>>
       ELSE /\ Raise("open_src", DecodeOutcome(args[1]), "except")
            /\ UNCHANGED original
    /\ UNCHANGED <<center, base, sizeIdx, prefixIdx, disk, env,
                   output, written, tmpCreated, composed>>

UseOriginal ==
    /\ pc = "branch"
    /\ ~center
    /\ base' = original
    /\ pc' = "mkdir_manifest"
    /\ UNCHANGED <<center, original, sizeIdx, prefixIdx, disk, env, output, exc, failed,
                   written, tmpCreated, composed>>

CreateScratch ==
    /\ pc = "branch"
    /\ center
    /\ \/ /\ scratch' = [exists |-> TRUE, data |-> [format |-> "empty"]]
          /\ tmpCreated' = TRUE
          /\ pc' = "compose"
          /\ UNCHANGED <<exc, failed>>
       \/ /\ Raise("tmp_create", "OSError", "except")
          /\ UNCHANGED <<scratch, tmpCreated>>
    /\ UNCHANGED <<locals, outKind, manifestDir, files, env, output, written, composed>>

CentreOnCanvas ==
    /\ pc = "compose"
    /\ \/ /\ base' = centre_on_canvas(original, CANVAS_SIZE, INNER_SIZE)
          /\ composed' = composed + 1
          /\ pc' = "save_tmp"
          /\ UNCHANGED <<exc, failed>>
       \/ /\ Raise("compose", "MemoryError", "finally")
          /\ UNCHANGED <<base, composed>>
    /\ UNCHANGED <<center, original, sizeIdx, prefixIdx, disk, env, output, written,
                   tmpCreated>>

SaveScratch ==
    /\ pc = "save_tmp"
    /\ \/ /\ scratch' = [exists |-> TRUE, data |-> PNG(base)]
          /\ pc' = "reopen"
          /\ UNCHANGED <<exc, failed>>
       \/ /\ scratch' = [exists |-> TRUE, data |-> Truncated]
          /\ Raise("save_tmp", "OSError", "finally")
    /\ UNCHANGED <<locals, outKind, manifestDir, files, env, output, written,
                   tmpCreated, composed>>

ReopenScratch ==
    /\ pc = "reopen"
    /\ \/ /\ base' = open_and_convert_img_to_rgb(scratch.data)
          /\ pc' = "finally"
          /\ UNCHANGED <<exc, failed>>
       \/ /\ Raise("reopen", "OSError", "finally")
          /\ UNCHANGED base
    /\ UNCHANGED <<center, original, sizeIdx, prefixIdx, disk, env, output, written,
                   tmpCreated, composed>>

\* a faulty variant of UnlinkScratch: the unlink is the last statement of the try body
UnlinkScratchOnSuccess ==
    /\ pc = "finally"
    /\ scratch' = IF exc = "none" THEN NoScratch ELSE scratch
    /\ pc' = IF exc = "none" THEN "mkdir_manifest" ELSE "except"
    /\ UNCHANGED <<locals, outKind, manifestDir, files, env, output, exc, failed,
                   written, tmpCreated, composed>>

\* the finally block: tmp_path.unlink(missing_ok=True), then on with the
\* function or with the exception in flight
UnlinkScratch ==
    /\ pc = "finally"
    /\ scratch' = NoScratch
    /\ pc' = IF exc = "none" THEN "mkdir_manifest" ELSE "except"
    /\ UNCHANGED <<locals, outKind, manifestDir, files, env, output, exc, failed,
                   written, tmpCreated, composed>>

(***************************************************************************)
(* generate_assets(): the outputs                                          *)
(***************************************************************************)
\* Path.mkdir(parents=True, exist_ok=True) on <out>/manifest
MkdirManifest ==
    /\ pc = "mkdir_manifest"
    /\ \/ /\ manifestDir' = TRUE
          /\ sizeIdx' = 1
          /\ prefixIdx' = 1
          /\ pc' = "icons"
          /\ UNCHANGED <<exc, failed>>
       \/ /\ ~manifestDir
          /\ Raise("mkdir_manifest", "OSError", "except")
          /\ UNCHANGED <<manifestDir, sizeIdx, prefixIdx>>
    /\ UNCHANGED <<center, original, base, outKind, files, scratch, env, output,
                   written, tmpCreated, composed>>

\* a faulty variant of WriteFile: a failed write removes what the invocation wrote before
WriteFileRollingBack(step, path, content, next) ==
    \/ /\ files' = Put(files, path, content)
       /\ written' = Append(written, path)
       /\ pc' = next
       /\ UNCHANGED <<exc, failed>>
    \/ /\ Raise(step, "OSError", "except")
       /\ files' = pre.files
       /\ UNCHANGED written
    \/ /\ Raise(step, "OSError", "except")
       /\ files' = Put(pre.files, path, Truncated)
       /\ UNCHANGED written

\* a write of `content` to `path` (Image.save, or open("w") and json.dump):
\* it completes, or it raises OSError before the file is opened and leaves the
\* disk as it was, or it raises OSError after and leaves a truncated file
WriteFile(step, path, content, next) ==
    \/ /\ files' = Put(files, path, content)
       /\ written' = Append(written, path)
       /\ pc' = next
       /\ UNCHANGED <<exc, failed>>
    \/ /\ Raise(step, "OSError", "except")
       /\ UNCHANGED <<files, written>>
    \/ /\ Raise(step, "OSError", "except")
       /\ files' = Put(files, path, Truncated)
       /\ UNCHANGED written

\* one turn of the inner loop of generate_manifest_icons
SaveIcon ==
    /\ pc = "icons"
    /\ LET size    == MANIFEST_SIZES[sizeIdx]
           prefix  == MANIFEST_PREFIXES[prefixIdx]
           resized == Resize(base, <<size, size>>)
           last    == sizeIdx = Len(MANIFEST_SIZES) /\ prefixIdx = Len(MANIFEST_PREFIXES)
       IN  /\ WriteFile("icons", <<"manifest", IconFileName(prefix, size)>>, PNG(resized),
                        IF last THEN "manifest_json" ELSE "icons")
           /\ IF pc' = "except"
              THEN UNCHANGED <<sizeIdx, prefixIdx>>
              ELSE IF prefixIdx < Len(MANIFEST_PREFIXES)
              THEN /\ prefixIdx' = prefixIdx + 1
                   /\ UNCHANGED sizeIdx
              ELSE /\ prefixIdx' = 1
                   /\ sizeIdx' = IF last THEN sizeIdx ELSE sizeIdx + 1
    /\ UNCHANGED <<center, original, base, outKind, manifestDir, scratch, env, output,
                   tmpCreated, composed>>

WriteManifestJson ==
    /\ pc = "manifest_json"
    /\ WriteFile("manifest_json", <<"manifest.json">>, JSON(generate_manifest_json(args[2])),
                 "logo")
    /\ UNCHANGED <<locals, outKind, manifestDir, scratch, env, output, tmpCreated, composed>>

\* a faulty variant of GenerateLogo: the logo is rendered from `base`
GenerateLogoFromBase ==
    /\ pc = "logo"
    /\ WriteFile("logo", <<"logo.png">>, PNG(Resize(base, <<LogoSize, LogoSize>>)), "favicon")
    /\ UNCHANGED <<locals, outKind, manifestDir, scratch, env, output, tmpCreated, composed>>

GenerateLogo ==
    /\ pc = "logo"
    /\ WriteFile("logo", <<"logo.png">>, PNG(Resize(original, <<LogoSize, LogoSize>>)),
                 "favicon")
    /\ UNCHANGED <<locals, outKind, manifestDir, scratch, env, output, tmpCreated, composed>>

GenerateFavicon ==
    /\ pc = "favicon"
    /\ WriteFile("favicon", <<"favicon.ico">>, ICO(Resize(original, FaviconThumb), ICO_SIZES),
                 "print")
    /\ UNCHANGED <<locals, outKind, manifestDir, scratch, env, output, tmpCreated, composed>>

\* the confirmation of generate_assets; main then returns and the process exits 0
PrintDone ==
    /\ pc = "print"
    /\ stdout' = Append(stdout, [kind |-> "done", dir |-> PathStr(args[2])])
    /\ exitCode' = 0
    /\ pc' = "exited"
    /\ UNCHANGED <<locals, disk, env, stderr, exc, failed, written, tmpCreated, composed>>

(***************************************************************************)
(* The user runs the tool again with the same arguments, on the tree the   *)
(* successful invocation left.                                             *)
(***************************************************************************)
Rerun ==
    /\ pc = "exited"
    /\ exitCode = 0
    /\ run < MaxRuns
    /\ run' = run + 1
    /\ pre' = [outKind |-> outKind, manifestDir |-> manifestDir, files |-> files]
    /\ pc' = "main"
    /\ center' = TRUE
    /\ original' = NoImage
    /\ base' = NoImage
    /\ sizeIdx' = 1
    /\ prefixIdx' = 1
    /\ exc' = "none"
    /\ exitCode' = -1
    /\ stdout' = <<>>
    /\ stderr' = <<>>
    /\ written' = <<>>
    /\ failed' = "none"
    /\ tmpCreated' = FALSE
    /\ composed' = 0
    /\ UNCHANGED <<args, srcFile, cfg, disk>>

Next ==
    \/ CheckArgCount
    \/ ParseCenter
    \/ ResolveSource
    \/ HandleError
    \/ MkdirOut
    \/ OpenSource
    \/ UseOriginal
    \/ CreateScratch
    \/ CentreOnCanvas
    \/ SaveScratch
    \/ ReopenScratch
    \/ UnlinkScratch
    \/ MkdirManifest
    \/ SaveIcon
    \/ WriteManifestJson
    \/ GenerateLogo
    \/ GenerateFavicon
    \/ PrintDone
    \/ Rerun

Spec == Init /\ [][Next]_vars

(***************************************************************************)
(* Vocabulary of the properties.                                           *)
(***************************************************************************)
Range(seq) == {seq[i] : i \in 1..Len(seq)}

SizeSet == Range(MANIFEST_SIZES)

Purposes == {"any", "maskable"}

PurposePrefix(purpose) == IF purpose = "any" THEN "icon" ELSE "maskable-icon"

SizeStr(size) == ToString(size) \o "x" \o ToString(size)

\* <prefix>-<size>x<size>.png
ExpectedIconName(prefix, size) == prefix \o "-" \o SizeStr(size) \o ".png"

ExpectedIconPaths ==
    {<<"manifest", ExpectedIconName(PurposePrefix(p), s)>> : s \in SizeSet, p \in Purposes}

OutputTree == [outKind |-> outKind, manifestDir |-> manifestDir, files |-> files]

\* the writes of this invocation that went into <out>/manifest
ManifestDirWrites == SelectSeq(written, LAMBDA p : Len(p) = 2 /\ p[1] = "manifest")

\* generate_manifest_icons has returned normally in this invocation
IconsReturned ==
    \/ pc \in {"manifest_json", "logo", "favicon", "print"}
    \/ pc \in {"except", "exited"} /\ failed \in {"manifest_json", "logo", "favicon"}
    \/ pc = "exited" /\ exitCode = 0

ManifestJsonWritten == <<"manifest.json">> \in Range(written)

\* the argument is `word` in any letter case
EqualsIgnoringCase(s, word) ==
    /\ Len(s) = Len(word)
    /\ \A i \in 1..Len(s) : LowerChar(s[i]) = word[i]

\* the argument is `word` in any letter case between leading and trailing white space
EqualsIgnoringCaseAndMargin(s, word) ==
    \E a \in 0..Len(s) :
        /\ a + Len(word) <= Len(s)
        /\ \A i \in 1..a : s[i] \in Whitespace
        /\ \A i \in (a + Len(word) + 1)..Len(s) : s[i] \in Whitespace
        /\ EqualsIgnoringCase(SubSeq(s, a + 1, a + Len(word)), word)

TrueWord == <<"t", "r", "u", "e">>

FalseWord == <<"f", "a", "l", "s", "e">>

ArgCountOk == 2 <= Len(args) /\ Len(args) <= 3

FlagRejected ==
    /\ Len(args) = 3
    /\ ~EqualsIgnoringCaseAndMargin(args[3], TrueWord)
    /\ ~EqualsIgnoringCaseAndMargin(args[3], FalseWord)

SourceMissing == ArgCountOk /\ Cwd[args[1]] # "file"

(***************************************************************************)
(* C1: once generate_manifest_icons has returned, this invocation has       *)
(* written exactly |S| x |P| files into <out>/manifest, one named           *)
(* <prefix>-<size>x<size>.png for every size and prefix and no other, each  *)
(* present as a PNG of that size; and the manifest.json it writes lists     *)
(* exactly |S| x |P| icons whose (sizes, purpose) pairs are S x P, each src *)
(* ending in the name of the file emitted for the same pair.               *)
(***************************************************************************)
C1_IconSetAndManifestAgree ==
    /\ IconsReturned =>
          /\ Len(ManifestDirWrites) = Cardinality(SizeSet) * Cardinality(Purposes)
          /\ Range(ManifestDirWrites) = ExpectedIconPaths
          /\ \A s \in SizeSet, p \in Purposes :
                LET path == <<"manifest", ExpectedIconName(PurposePrefix(p), s)>>
                IN  /\ path \in DOMAIN files
                    /\ files[path].format = "PNG"
                    /\ files[path].image.size = <<s, s>>
    /\ ManifestJsonWritten =>
          LET icons == files[<<"manifest.json">>].doc.icons
          IN  /\ Len(icons) = Cardinality(SizeSet) * Cardinality(Purposes)
              /\ {<<icons[i].sizes, icons[i].purpose>> : i \in 1..Len(icons)}
                    = {<<SizeStr(s), p>> : s \in SizeSet, p \in Purposes}
              /\ \A i \in 1..Len(icons) :
                    \E s \in SizeSet, p \in Purposes :
                        /\ icons[i].sizes = SizeStr(s)
                        /\ icons[i].purpose = p
                        /\ icons[i].src = MANIFEST_ICON_BASE_PATH \o "/"
                                            \o ExpectedIconName(PurposePrefix(p), s)
                        /\ <<"manifest", ExpectedIconName(PurposePrefix(p), s)>>
                              \in Range(ManifestDirWrites)

C1_Witness ==
    /\ pc = "exited"
    /\ exitCode = 0
    /\ ManifestJsonWritten
    /\ Len(ManifestDirWrites) = 18

(***************************************************************************)
(* C2: once generate_assets has returned or raised, whatever step failed,   *)
(* the scratch file does not exist; with center false none is ever created. *)
(***************************************************************************)
C2_ScratchDeleted ==
    /\ pc \in {"except", "exited"} => ~scratch.exists
    /\ (pc \notin {"main", "parse"} /\ ~center) => (~tmpCreated /\ ~scratch.exists)

C2_Witness ==
    /\ pc = "exited"
    /\ center
    /\ tmpCreated
    /\ failed = "save_tmp"
    /\ ~scratch.exists

(***************************************************************************)
(* C3: an invocation with a wrong argument count, an invalid third argument *)
(* or a source name that is no regular file of the current directory never  *)
(* changes the file system, and ends with exit code 1 after one diagnostic. *)
(***************************************************************************)
C3_RejectedBeforeAnyWork ==
    (~ArgCountOk \/ FlagRejected \/ SourceMissing) =>
        /\ OutputTree = pre
        /\ written = <<>>
        /\ ~tmpCreated
        /\ ~scratch.exists
        /\ pc = "exited" =>
              /\ exitCode = 1
              /\ Len(stdout) = 1
              /\ stdout[1].kind \in {"usage", "flag", "File error"}
              /\ stderr = <<>>

C3_Witness ==
    /\ pc = "exited"
    /\ SourceMissing
    /\ ~FlagRejected
    /\ pre.outKind = "absent"
    /\ exitCode = 1

ExpectedOutputs ==
    ExpectedIconPaths \cup {<<"manifest.json">>, <<"logo.png">>, <<"favicon.ico">>}

(***************************************************************************)
(* C4: exit code 0 only after all outputs were written and the              *)
(* confirmation naming the output directory was printed; every failure of   *)
(* any step ends the invocation with exit code 1 after a one-line           *)
(* diagnostic on standard output, and no step follows a failure.           *)
(***************************************************************************)
C4_CompleteOrDiagnosed ==
    /\ (pc = "exited" /\ exitCode = 0) =>
          /\ failed = "none"
          /\ Range(written) = ExpectedOutputs
          /\ stdout = <<[kind |-> "done", dir |-> PathStr(args[2])]>>
    /\ (pc = "exited" /\ failed # "none") =>
          /\ exitCode = 1
          /\ Len(stdout) = 1
          /\ stdout[1].kind \in {"usage", "flag", "File error", "I/O error"}
          /\ stderr = <<>>
    /\ failed # "none" => pc \in {"finally", "except", "exited"}

(***************************************************************************)
(* C5 as stated: the third argument is accepted exactly when it is "true"   *)
(* or "false" in any letter case, giving center true or false; any other    *)
(* value ends the invocation with exit code 1; absent, center is true.      *)
(***************************************************************************)
C5_ExactlyTrueOrFalse ==
    (ArgCountOk /\ pc \notin {"main", "parse"}) =>
        IF Len(args) = 3
        THEN /\ EqualsIgnoringCase(args[3], TrueWord) => (center /\ failed # "flag")
             /\ EqualsIgnoringCase(args[3], FalseWord) => (~center /\ failed # "flag")
             /\ (~EqualsIgnoringCase(args[3], TrueWord)
                   /\ ~EqualsIgnoringCase(args[3], FalseWord)) =>
                   (failed = "flag" /\ pc = "exited" /\ exitCode = 1)
        ELSE center /\ failed # "flag"

(***************************************************************************)
(* C5 as amended: the third argument is accepted exactly when, with its     *)
(* leading and trailing white space removed, it is "true" or "false" in any *)
(* letter case, giving center true or false; any other value ends the       *)
(* invocation with exit code 1; absent, center is true.                     *)
(***************************************************************************)
C5_TrueOrFalseAfterStrip ==
    (ArgCountOk /\ pc \notin {"main", "parse"}) =>
        IF Len(args) = 3
        THEN /\ EqualsIgnoringCaseAndMargin(args[3], TrueWord) => (center /\ failed # "flag")
             /\ EqualsIgnoringCaseAndMargin(args[3], FalseWord) => (~center /\ failed # "flag")
             /\ FlagRejected =>
                   /\ failed = "flag"
                   /\ pc = "exited"
                   /\ exitCode = 1
                   /\ stdout = <<[kind |-> "flag", flag |-> "center", value |-> args[3]]>>
        ELSE center /\ failed # "flag"

C5_Witness ==
    /\ Len(args) = 3
    /\ args[3] = <<"f", "a", "l", "s", "e", "\n">>
    /\ pc = "resolve"
    /\ ~center

BaseChosen ==
    \/ pc \in {"mkdir_manifest", "icons", "manifest_json", "logo", "favicon", "print"}
    \/ pc \in {"except", "exited"}
         /\ failed \in {"mkdir_manifest", "icons", "manifest_json", "logo", "favicon"}
    \/ pc = "exited" /\ exitCode = 0

(***************************************************************************)
(* C6: the image handed to the icon renderer is the centred canvas exactly  *)
(* when center is true; with center false centre_on_canvas is never called  *)
(* and the base is the normalised original itself; logo.png and favicon.ico *)
(* are rendered from the normalised original whatever center is.           *)
(***************************************************************************)
C6_BaseFollowsCenter ==
    /\ BaseChosen =>
          /\ (base.origin = "canvas") <=> center
          /\ center => (base.size = CANVAS_SIZE /\ composed = 1)
          /\ ~center => (base = original /\ base.size = srcFile.image.size)
    /\ (pc \notin {"main", "parse"} /\ ~center) => composed = 0
    /\ \A path \in Range(ManifestDirWrites) :
          files[path].image.origin = IF center THEN "canvas" ELSE "source"
    /\ <<"logo.png">> \in Range(written) =>
          /\ files[<<"logo.png">>].image.origin = "source"
          /\ files[<<"logo.png">>].image.box = <<0, 0, LogoSize, LogoSize>>
    /\ <<"favicon.ico">> \in Range(written) =>
          /\ files[<<"favicon.ico">>].image.origin = "source"
          /\ files[<<"favicon.ico">>].image.box = <<0, 0, 32, 32>>

C6_Witness ==
    /\ pc = "exited"
    /\ exitCode = 0
    /\ center
    /\ base.origin = "canvas"
    /\ files[<<"logo.png">>].image.origin = "source"

ExpectedWriteOrder ==
    LET n == Len(MANIFEST_SIZES)
    IN  [k \in 1..(2 * n + 3) |->
            IF k <= 2 * n
            THEN <<"manifest",
                   ExpectedIconName(IF k % 2 = 1 THEN "icon" ELSE "maskable-icon",
                                    MANIFEST_SIZES[(k + 1) \div 2])>>
            ELSE IF k = 2 * n + 1 THEN <<"manifest.json">>
            ELSE IF k = 2 * n + 2 THEN <<"logo.png">>
            ELSE <<"favicon.ico">>]

StartedEmpty ==
    /\ pre.outKind \in {"absent", "dir"}
    /\ ~pre.manifestDir
    /\ DOMAIN pre.files = {}

WriteSteps == {"icons", "manifest_json", "logo", "favicon"}

OrderedDependencies ==
    /\ <<"manifest.json">> \in DOMAIN files => ExpectedIconPaths \subseteq DOMAIN files
    /\ <<"favicon.ico">> \in DOMAIN files => ExpectedOutputs \subseteq DOMAIN files

(***************************************************************************)
(* C7 as stated: starting from an empty output directory the files are      *)
(* written in one fixed order, and after a run that fails at the k-th write *)
(* the directory holds exactly the files of the first k-1 writes; so        *)
(* manifest.json exists only if all icon files exist and favicon.ico only   *)
(* if every other output exists.                                           *)
(***************************************************************************)
C7_ExactlyEarlierWrites ==
    StartedEmpty =>
        /\ written = SubSeq(ExpectedWriteOrder, 1, Len(written))
        /\ (pc = "exited" /\ failed \in WriteSteps) => DOMAIN files = Range(written)
        /\ OrderedDependencies

(***************************************************************************)
(* C7 as amended: starting from an empty output directory the files are     *)
(* written in one fixed order and an earlier write is never rolled back:    *)
(* the directory always holds the complete files of the writes done so far, *)
(* and besides them at most a truncated file of the one write that failed,  *)
(* the next in the order; so manifest.json exists only if all icon files    *)
(* exist and favicon.ico only if every other output exists.                 *)
(***************************************************************************)
C7_EarlierWritesKept ==
    StartedEmpty =>
        /\ written = SubSeq(ExpectedWriteOrder, 1, Len(written))
        /\ \A p \in Range(written) : p \in DOMAIN files /\ files[p] # Truncated
        /\ \A p \in (DOMAIN files) \ Range(written) :
              /\ failed \in WriteSteps
              /\ Len(written) < Len(ExpectedWriteOrder)
              /\ p = ExpectedWriteOrder[Len(written) + 1]
              /\ files[p] = Truncated
        /\ OrderedDependencies

C7_Witness ==
    /\ StartedEmpty
    /\ pc = "exited"
    /\ failed = "manifest_json"
    /\ Len(written) = 18
    /\ <<"manifest.json">> \in DOMAIN files
    /\ <<"manifest", "icon-32x32.png">> \in DOMAIN files

SameDimensions(a, b) ==
    /\ a.format = b.format
    /\ a.format \in {"PNG", "ICO"} => a.image.size = b.image.size
    /\ a.format = "ICO" => a.sizes = b.sizes

(***************************************************************************)
(* C8: a second invocation with the same arguments and the same source      *)
(* leaves the same manifest.json and the same files with the same           *)
(* dimensions as the first; the short name of the manifest is the project   *)
(* folder argument verbatim and every icon src is the fixed base path       *)
(* followed by the icon's file name, whatever the output directory is.      *)
(***************************************************************************)
C8_Idempotent ==
    /\ (run >= 2 /\ pc = "exited" /\ exitCode = 0) =>
          /\ DOMAIN files = DOMAIN pre.files
          /\ files[<<"manifest.json">>] = pre.files[<<"manifest.json">>]
          /\ \A p \in DOMAIN files : SameDimensions(files[p], pre.files[p])
    /\ ManifestJsonWritten =>
          LET doc == files[<<"manifest.json">>].doc
          IN  /\ doc.short_name = args[2]
              /\ Len(doc.icons) = 2 * Len(MANIFEST_SIZES)
              /\ \A i \in 1..Len(doc.icons) :
                    doc.icons[i].src =
                        "/assets/media/img/manifest/"
                            \o (IF i % 2 = 1 THEN "icon-" ELSE "maskable-icon-")
                            \o SizeStr(MANIFEST_SIZES[(i + 1) \div 2]) \o ".png"

C8_Witness ==
    /\ run = 2
    /\ pc = "exited"
    /\ exitCode = 0
    /\ args[2] = <<"a", "p", "p", "/">>
    /\ PathStr(args[2]) = <<"a", "p", "p">>
    /\ files[<<"manifest.json">>].doc.short_name = <<"a", "p", "p", "/">>

(***************************************************************************)
(* C10: the output directory is made before the source is decoded: an       *)
(* invocation whose source exists but does not decode ends with exit code 1 *)
(* and has made the output directory and nothing in it, and no image is     *)
(* ever decoded while the output directory is still to be made.             *)
(***************************************************************************)
C10_DirectoryBeforeDecode ==
    /\ (pc = "exited" /\ failed = "open_src") =>
          /\ exitCode = 1
          /\ outKind = "dir"
          /\ manifestDir = pre.manifestDir
          /\ files = pre.files
          /\ written = <<>>
          /\ pre.outKind = "absent" => (~manifestDir /\ DOMAIN files = {})
    /\ pc \in {"main", "parse", "resolve", "mkdir_out"} =>
          (outKind = pre.outKind /\ original = NoImage)
    /\ (original # NoImage \/ failed = "open_src") => outKind = "dir"

C10_Witness ==
    /\ pc = "exited"
    /\ failed = "open_src"
    /\ srcFile.decode = "UnidentifiedImageError"
    /\ pre.outKind = "absent"
    /\ outKind = "dir"
    /\ DOMAIN files = {}

(***************************************************************************)
(* centre_on_canvas on its own: a call with any canvas and inner size.      *)
(***************************************************************************)
Dims == (1..MaxDim) \X (1..MaxDim)

CanvasConfigs ==
    {[canvas |-> c, inner |-> i] : c \in Dims, i \in Dims}
        \cup {[canvas |-> CANVAS_SIZE, inner |-> INNER_SIZE]}

InitCanvas ==
    /\ cfg \in CanvasConfigs
    /\ srcFile \in {f \in SourceFiles : f.decode = "ok"}
    /\ original = open_and_convert_img_to_rgb(srcFile)
    /\ pc = "call"
    /\ base = NoImage
    /\ composed = 0
    /\ args = <<>>
    /\ center = TRUE
    /\ sizeIdx = 1
    /\ prefixIdx = 1
    /\ scratch = NoScratch
    /\ outKind = "absent"
    /\ manifestDir = FALSE
    /\ files = <<>>
    /\ pre = [outKind |-> "absent", manifestDir |-> FALSE, files |-> <<>>]
    /\ exc = "none"
    /\ exitCode = -1
    /\ stdout = <<>>
    /\ stderr = <<>>
    /\ run = 1
    /\ written = <<>>
    /\ failed = "none"
    /\ tmpCreated = FALSE

CentreCall ==
    /\ pc = "call"
    /\ base' = centre_on_canvas(original, cfg.canvas, cfg.inner)
    /\ composed' = composed + 1
    /\ pc' = "returned"
    /\ UNCHANGED <<center, original, sizeIdx, prefixIdx, disk, env, output, exc, failed,
                   written, tmpCreated>>

NextCanvas == CentreCall

SpecCanvas == InitCanvas /\ [][NextCanvas]_vars

InnerFits == cfg.inner[1] <= cfg.canvas[1] /\ cfg.inner[2] <= cfg.canvas[2]

MarginsBalanced(lead, trail) ==
    IF (lead + trail) % 2 = 0 THEN lead = trail ELSE trail = lead + 1

(***************************************************************************)
(* C9: with inner <= canvas on each axis, centre_on_canvas returns an image *)
(* of exactly the canvas size in which the source occupies a rectangle of   *)
(* exactly the inner size at offset ((cw-iw)//2, (ch-ih)//2), wholly inside *)
(* the canvas; the left/top margin equals the right/bottom margin when the  *)
(* difference is even and is one pixel smaller when it is odd; for the      *)
(* configured 500x500 and 320x320 the offset is (90, 90).                   *)
(***************************************************************************)
C9_CentredOnCanvas ==
    (pc = "returned" /\ InnerFits) =>
        /\ base.size = cfg.canvas
        /\ base.box[1] = (cfg.canvas[1] - cfg.inner[1]) \div 2
        /\ base.box[2] = (cfg.canvas[2] - cfg.inner[2]) \div 2
        /\ base.box[3] - base.box[1] = cfg.inner[1]
        /\ base.box[4] - base.box[2] = cfg.inner[2]
        /\ 0 <= base.box[1] /\ base.box[3] <= cfg.canvas[1]
        /\ 0 <= base.box[2] /\ base.box[4] <= cfg.canvas[2]
        /\ MarginsBalanced(base.box[1], cfg.canvas[1] - base.box[3])
        /\ MarginsBalanced(base.box[2], cfg.canvas[2] - base.box[4])
        /\ (cfg.canvas = <<500, 500>> /\ cfg.inner = <<320, 320>>) =>
              <<base.box[1], base.box[2]>> = <<90, 90>>

C9_Witness ==
    /\ pc = "returned"
    /\ cfg.canvas = <<4, 3>>
    /\ cfg.inner = <<1, 2>>
    /\ base.box = <<1, 0, 2, 2>>

====
